---- MODULE Spec2Model ----
(***************************************************************************)
(* RobustNewsPublisher (news_generator.py): the driver loop                *)
(* start_news_generation, publish_message and establish_connection, run    *)
(* against a broker whose answers are the environment's choice.            *)
(*                                                                         *)
(* Text is a sequence of one-character strings, so that lower() is a       *)
(* computation and not a table of the four categories.                     *)
(***************************************************************************)
EXTENDS Integers, Sequences, FiniteSets, TLC

\* max_retries of the constructor (default 10); the model's bound on retries.
MaxRetries == 3

VARIABLES
    pc,          \* position of the single worker in the code
    broker,      \* what the broker answers right now: "up", "down", "faulty"
    message,     \* news_item of the current cycle as publish_message reads it
                 \* (under GenSpec: the whole record), or NoMessage
    routingKey,  \* routing_key handed to basic_publish this cycle, or <<>>
    result,      \* what basic_publish returned this cycle: "none", "confirmed", "unconfirmed"
    attempt,     \* loop variable of the establish_connection call in progress
    tries,       \* BlockingConnection(...) calls that call has made
    fails,       \* attempts of that call that raised
    lastError,   \* the exception the latest failed attempt raised and logged;
                 \* "none" once a call has returned a connection
    econn,       \* object bound to establish_connection's local `connection`
    pconn,       \* object bound to publish_message's local `connection`
    orphans,     \* open connections of this cycle that no variable refers to any more
    closes,      \* close() calls made on the connection publish_message holds
    leaked,      \* a connection of an earlier cycle is still open
    exc,         \* exception propagating out of publish_message
    pubErr,      \* the exception `e` that line 197 reports
    reports,     \* what publish_message and the driver reported this cycle
    cycFail,     \* the steps of this cycle that failed
    prev,        \* the cycle before this one, kept when its connect or its publish
                 \* step was the one step that failed
    signalAt,    \* where the worker was when KeyboardInterrupt arrived, or "none"
    probe,       \* outcome of the constructor's socket probe, "pending" before it
    testSocket,  \* test_socket of _validate_network_prerequisites
    submits,     \* basic_publish calls made for the record of this cycle
    edeclared,   \* exchange declared over establish_connection's `connection`
    pdeclared,   \* exchange declared over publish_message's `connection`
    sleeps,      \* the backoff sleeps of the establish_connection call in progress
    wireTries,   \* connection attempts that call has caused on the wire
    pubEnded,    \* publish_message calls that ended since the last generate
    slept        \* interval sleeps taken since the last generate

vars == <<pc, broker, message, routingKey, result, attempt, tries, fails, lastError,
          econn, pconn, orphans, closes, leaked, exc, pubErr, reports, cycFail,
          prev, signalAt, probe, testSocket, submits, edeclared, pdeclared, sleeps,
          wireTries, pubEnded, slept>>

----------------------------------------------------------------------------
\* Text

Upper == <<"A","B","C","D","E","F","G","H","I","J","K","L","M",
           "N","O","P","Q","R","S","T","U","V","W","X","Y","Z">>
LowerLetters == <<"a","b","c","d","e","f","g","h","i","j","k","l","m",
                  "n","o","p","q","r","s","t","u","v","w","x","y","z">>

\* str.lower() on one character
LowerChar(c) ==
    IF \E i \in DOMAIN Upper : Upper[i] = c
    THEN LowerLetters[CHOOSE i \in DOMAIN Upper : Upper[i] = c]
    ELSE c

\* str.lower(), as generate_news_item applies it to the category (line 151)
Lower(s) == [i \in DOMAIN s |-> LowerChar(s[i])]

Technology == <<"T","e","c","h","n","o","l","o","g","y">>
Business == <<"B","u","s","i","n","e","s","s">>
Science == <<"S","c","i","e","n","c","e">>
World == <<"W","o","r","l","d">>

\* categories of generate_news_item (line 140)
Categories == {Technology, Business, Science, World}

\* the first keyword of every record (line 150)
Innovation == <<"i","n","n","o","v","a","t","i","o","n">>
Research == <<"r","e","s","e","a","r","c","h">>
Discovery == <<"d","i","s","c","o","v","e","r","y">>
GenericKeywords == {Innovation, Research, Discovery}

\* Keywords with the category left as it is
KeywordsUnlowered(c, k) == <<k, c>>

\* lines 149-152: 'keywords': [random.choice([...]), category.lower()]
Keywords(c, k) == <<k, Lower(c)>>

\* line 144: random.randint(1000, 9999)
IdMin == 1000
IdMax == 9999

\* the ids the model draws: IdMin .. IdMin + IdSpan
IdSpan == 9
Ids == {i \in IdMin..(IdMin + IdSpan) : i <= IdMax}

\* lines 143-154: the record generate_news_item returns; title and content
\* are functions of the category, timestamp and source play no part
NewsItem(c, k, i) == [id |-> i, category |-> c, keywords |-> Keywords(c, k)]

\* what publish_message reads of the record: message.get('category') (line
\* 182); the title of line 192 is a function of it
Handed(item) == [category |-> item.category]

\* every record generate_news_item can return
NewsItems == {NewsItem(c, k, i) : c \in Categories, k \in GenericKeywords, i \in Ids}

\* every record as publish_message can be handed it
HandedItems == {Handed(item) : item \in NewsItems}

\* the keywords generate_news_item can give a record of category c
Vocabulary(c) == {Keywords(c, k)[i] : k \in GenericKeywords, i \in 1..2}

NoMessage == [category |-> <<>>]

\* the literal "news." of the routing key (line 182)
NewsPrefix == <<"n","e","w","s",".">>

\* the f-string of line 182: f"news.{message.get('category', 'general')}"
RoutingKey(m) == NewsPrefix \o m.category

----------------------------------------------------------------------------
\* Broker and exceptions

BrokerStates == {"up", "down", "faulty"}

\* the exceptions establish_connection retries on (lines 115-119)
Retryable == {"AMQPConnectionError", "AMQPChannelError", "socket.error"}

\* any other Exception (line 126)
Unexpected == {"Exception"}

\* what a broker call raises when the broker is not up
ErrorsOf(b) == IF b = "down" THEN Retryable ELSE Unexpected

\* the ConnectionError of line 169: raised outside any except block, so it
\* has no __context__; the value None it reacts to carries nothing either
NoConnectionError == [type |-> "ConnectionError", context |-> "none"]

\* an exception a broker call raised, as line 196 binds it to `e`
LibraryError(e) == [type |-> e, context |-> "none"]

NoError == [type |-> "none", context |-> "none"]

\* lines 105-110: what exchange_declare declares
NewsExchange == [exchange |-> "news_exchange", type |-> "topic",
                 durable |-> TRUE, auto_delete |-> FALSE]

NoExchange == [exchange |-> "none", type |-> "none",
               durable |-> FALSE, auto_delete |-> FALSE]

\* line 181: exchange='news_exchange'
PublishExchange == "news_exchange"

\* line 124: time.sleep(3)
BackoffSeconds == 3

\* line 77: connection_attempts=self.max_retries
ConnectionAttempts == MaxRetries

\* the connection attempts one BlockingConnection(...) call makes: the
\* library tries connection_attempts times before it raises its connection
\* error (lines 77 and 98); a broker that is up accepts the first
LibraryAttempts(b) == IF b = "down" THEN ConnectionAttempts ELSE 1

NoCycle == [fail |-> {}, result |-> "none", reports |-> <<>>]

EstPcs == {"est_loop", "est_connect", "est_channel", "est_qos", "est_declare",
           "est_return", "est_backoff", "est_fail"}
PubTryPcs == {"pub_check", "pub_channel", "pub_confirm", "pub_publish", "pub_except"}

OpenCount(c) == IF c = "open" THEN 1 ELSE 0

----------------------------------------------------------------------------
Init ==
    /\ pc = "construct"
    /\ broker \in BrokerStates
    /\ message = NoMessage
    /\ routingKey = <<>>
    /\ result = "none"
    /\ attempt = 0
    /\ tries = 0
    /\ fails = 0
    /\ lastError = "none"
    /\ econn = "none"
    /\ pconn = "none"
    /\ orphans = 0
    /\ closes = 0
    /\ leaked = FALSE
    /\ exc = "none"
    /\ pubErr = NoError
    /\ reports = <<>>
    /\ cycFail = {}
    /\ prev = NoCycle
    /\ signalAt = "none"
    /\ probe = "pending"
    /\ testSocket = "none"
    /\ submits = 0
    /\ edeclared = NoExchange
    /\ pdeclared = NoExchange
    /\ sleeps = <<>>
    /\ wireTries = 0
    /\ pubEnded = 0
    /\ slept = 0

----------------------------------------------------------------------------
\* main and __init__, lines 227 and 24-47: the constructor calls
\* _validate_network_prerequisites, which opens test_socket and probes the
\* port. socket.socket() may raise before there is a socket; settimeout or
\* connect_ex may raise with the socket open; connect_ex returns 0 or an
\* error number.
PreflightProbe ==
    /\ pc = "construct"
    /\ \E r \in {"reachable", "unreachable", "raised", "no_socket"} :
         /\ probe' = r
         /\ testSocket' = IF r = "no_socket" THEN "none" ELSE "open"
    /\ pc' = "probed"
    /\ UNCHANGED <<broker, message, routingKey, result, attempt, tries, fails,
                   lastError, econn, pconn, orphans, closes, leaked, exc, pubErr,
                   reports, cycFail, prev, signalAt, submits, edeclared,
                   pdeclared, sleeps, wireTries, pubEnded, slept>>

\* PreflightCheck logging the failure and going on
PreflightCheckSwallows ==
    /\ pc = "probed"
    /\ testSocket' = IF probe = "reachable" THEN "closed" ELSE testSocket
    /\ pc' = "gen"
    /\ UNCHANGED <<broker, message, routingKey, result, attempt, tries, fails,
                   lastError, econn, pconn, orphans, closes, leaked, exc, pubErr,
                   reports, cycFail, prev, signalAt, probe, submits, edeclared,
                   pdeclared, sleeps, wireTries, pubEnded, slept>>

\* lines 49-57 and 226-228: with result 0 the socket is closed and main goes
\* on to start_news_generation; otherwise the ConnectionError of line 50, or
\* the exception the probe raised, is logged and raised again (line 57), out
\* of the constructor and out of main, which catches nothing.
PreflightCheck ==
    /\ pc = "probed"
    /\ IF probe = "reachable"
       THEN /\ testSocket' = "closed"
            /\ pc' = "gen"
       ELSE /\ pc' = "crashed"
            /\ UNCHANGED testSocket
    /\ UNCHANGED <<broker, message, routingKey, result, attempt, tries, fails,
                   lastError, econn, pconn, orphans, closes, leaked, exc, pubErr,
                   reports, cycFail, prev, signalAt, probe, submits, edeclared,
                   pdeclared, sleeps, wireTries, pubEnded, slept>>

\* start_news_generation, line 216: news_item = self.generate_news_item().
\* The cycle's bookkeeping starts afresh; what the cycle before left open
\* stays open.
Generate ==
    /\ pc = "gen"
    /\ \E m \in HandedItems : message' = m
    /\ prev' = IF cycFail \in {{"publish"}, {"connect"}}
               THEN [fail |-> cycFail, result |-> result, reports |-> reports]
               ELSE NoCycle
    /\ leaked' = (leaked \/ orphans > 0 \/ pconn = "open")
    /\ routingKey' = <<>>
    /\ result' = "none"
    /\ attempt' = 0
    /\ tries' = 0
    /\ fails' = 0
    /\ lastError' = "none"
    /\ econn' = "none"
    /\ pconn' = "none"
    /\ orphans' = 0
    /\ closes' = 0
    /\ pubErr' = NoError
    /\ reports' = <<>>
    /\ cycFail' = {}
    /\ pc' = "pub_enter"
    /\ UNCHANGED <<broker, exc, signalAt>>
    /\ submits' = 0
    /\ edeclared' = NoExchange
    /\ pdeclared' = NoExchange
    /\ sleeps' = <<>>
    /\ wireTries' = 0
    /\ pubEnded' = 0
    /\ slept' = 0
    /\ UNCHANGED <<probe, testSocket>>

\* publish_message, lines 163-166: connection = None, then the call of
\* establish_connection (line 91: connection = None)
PubEnter ==
    /\ pc = "pub_enter"
    /\ pconn' = "none"
    /\ econn' = "none"
    /\ attempt' = 0
    /\ pc' = "est_loop"
    /\ UNCHANGED <<broker, message, routingKey, result, tries, fails, lastError,
                   orphans, closes, leaked, exc, pubErr, reports, cycFail, prev,
                   signalAt>>
    /\ UNCHANGED <<probe, testSocket, submits, edeclared, pdeclared, sleeps, wireTries, pubEnded, slept>>

\* EstLoop with the bound off by one: range(self.max_retries + 1)
EstLoopOffByOne ==
    /\ pc = "est_loop"
    /\ pc' = IF attempt <= MaxRetries THEN "est_connect" ELSE "est_fail"
    /\ UNCHANGED <<broker, message, routingKey, result, attempt, tries, fails,
                   lastError, econn, pconn, orphans, closes, leaked, exc, pubErr,
                   reports, cycFail, prev, signalAt>>
    /\ UNCHANGED <<probe, testSocket, submits, edeclared, pdeclared, sleeps, wireTries, pubEnded, slept>>

\* line 92: for attempt in range(self.max_retries)
EstLoop ==
    /\ pc = "est_loop"
    /\ pc' = IF attempt < MaxRetries THEN "est_connect" ELSE "est_fail"
    /\ UNCHANGED <<broker, message, routingKey, result, attempt, tries, fails,
                   lastError, econn, pconn, orphans, closes, leaked, exc, pubErr,
                   reports, cycFail, prev, signalAt>>
    /\ UNCHANGED <<probe, testSocket, submits, edeclared, pdeclared, sleeps, wireTries, pubEnded, slept>>

\* EstRaise with every exception handled as the unexpected one: no retry
EstRaiseNoRetry(e) ==
    /\ lastError' = e
    /\ fails' = fails + 1
    /\ pc' = "est_fail"

\* EstRaise with every exception handled as a retryable one
EstRaiseAlwaysRetries(e) ==
    /\ lastError' = e
    /\ fails' = fails + 1
    /\ pc' = "est_backoff"

\* lines 115-128: the two except clauses of establish_connection. A
\* retryable error is logged and followed by the backoff, any other
\* Exception is logged and breaks out of the loop.
EstRaise(e) ==
    /\ lastError' = e
    /\ fails' = fails + 1
    /\ pc' = IF e \in Retryable THEN "est_backoff" ELSE "est_fail"

\* lines 95-98: connection = pika.BlockingConnection(connection_params).
\* The assignment rebinds `connection`: what it referred to is not closed.
EstConnect ==
    /\ pc = "est_connect"
    /\ tries' = tries + 1
    /\ IF broker = "up"
       THEN /\ orphans' = orphans + OpenCount(econn)
            /\ econn' = "open"
            /\ edeclared' = NoExchange
            /\ pc' = "est_channel"
            /\ UNCHANGED <<lastError, fails>>
       ELSE /\ \E e \in ErrorsOf(broker) : EstRaise(e)
            /\ UNCHANGED <<orphans, econn, edeclared>>
    /\ wireTries' = wireTries + LibraryAttempts(broker)
    /\ UNCHANGED <<broker, message, routingKey, result, attempt, pconn, closes,
                   leaked, exc, pubErr, reports, cycFail, prev, signalAt>>
    /\ UNCHANGED <<probe, testSocket, submits, pdeclared, sleeps, pubEnded, slept>>

\* a call on the open connection inside establish_connection: it returns,
\* or it raises and leaves the connection open or closed by the peer
EstCall(here, next) ==
    /\ pc = here
    /\ IF broker = "up"
       THEN /\ pc' = next
            /\ UNCHANGED <<lastError, fails, econn>>
       ELSE /\ \E e \in ErrorsOf(broker) : EstRaise(e)
            /\ \E st \in {"open", "closed"} : econn' = st
    /\ UNCHANGED <<broker, message, routingKey, result, attempt, tries, pconn,
                   orphans, closes, leaked, exc, pubErr, reports, cycFail, prev,
                   signalAt>>
    /\ UNCHANGED <<probe, testSocket, submits, edeclared, pdeclared, sleeps, wireTries, pubEnded, slept>>

\* line 101: channel = connection.channel()
EstChannel == EstCall("est_channel", "est_qos")

\* line 102: channel.basic_qos(prefetch_count=1)
EstQos == EstCall("est_qos", "est_declare")

\* EstDeclare with the declaration left out
EstDeclareSkipped == EstCall("est_declare", "est_return")

\* lines 105-110: channel.exchange_declare(...)
EstDeclare ==
    /\ pc = "est_declare"
    /\ IF broker = "up"
       THEN /\ edeclared' = NewsExchange
            /\ pc' = "est_return"
            /\ UNCHANGED <<lastError, fails, econn>>
       ELSE /\ \E e \in ErrorsOf(broker) : EstRaise(e)
            /\ \E st \in {"open", "closed"} : econn' = st
            /\ UNCHANGED edeclared
    /\ UNCHANGED <<broker, message, routingKey, result, attempt, tries, pconn,
                   orphans, closes, leaked, exc, pubErr, reports, cycFail, prev,
                   signalAt>>
    /\ UNCHANGED <<probe, testSocket, submits, pdeclared, sleeps, wireTries,
                   pubEnded, slept>>

\* lines 112-113: return connection, bound to publish_message's local (line
\* 166); the frame of establish_connection is gone
EstReturn ==
    /\ pc = "est_return"
    /\ pconn' = econn
    /\ econn' = "none"
    /\ lastError' = "none"
    /\ attempt' = 0
    /\ tries' = 0
    /\ fails' = 0
    /\ pc' = "pub_check"
    /\ UNCHANGED <<broker, message, routingKey, result,
                   orphans, closes, leaked, exc, pubErr, reports,
                   cycFail, prev, signalAt>>
    /\ pdeclared' = edeclared
    /\ edeclared' = NoExchange
    /\ sleeps' = <<>>
    /\ wireTries' = 0
    /\ UNCHANGED <<probe, testSocket, submits, pubEnded, slept>>

\* lines 120-124: the warning and time.sleep(3), then the next iteration
EstBackoff ==
    /\ pc = "est_backoff"
    /\ attempt' = attempt + 1
    /\ pc' = "est_loop"
    /\ UNCHANGED <<broker, message, routingKey, result, tries, fails, lastError,
                   econn, pconn, orphans, closes, leaked, exc, pubErr, reports,
                   cycFail, prev, signalAt>>
    /\ sleeps' = Append(sleeps, BackoffSeconds)
    /\ UNCHANGED <<probe, testSocket, submits, edeclared, pdeclared, wireTries, pubEnded, slept>>

\* EstFail raising the last error to the caller instead of returning None
EstFailRaises ==
    /\ pc = "est_fail"
    /\ orphans' = orphans + OpenCount(econn)
    /\ econn' = "none"
    /\ pconn' = "none"
    /\ cycFail' = cycFail \cup {"connect"}
    /\ attempt' = 0
    /\ tries' = 0
    /\ fails' = 0
    /\ pubErr' = LibraryError(lastError)
    /\ pc' = "pub_except"
    /\ UNCHANGED <<broker, message, routingKey, result,
                   lastError, closes, leaked, exc, reports, prev, signalAt>>
    /\ edeclared' = NoExchange
    /\ sleeps' = <<>>
    /\ wireTries' = 0
    /\ UNCHANGED <<probe, testSocket, submits, pdeclared, pubEnded, slept>>

\* lines 130-131: the error log and return None. The frame's `connection`
\* goes out of scope without close().
EstFail ==
    /\ pc = "est_fail"
    /\ orphans' = orphans + OpenCount(econn)
    /\ econn' = "none"
    /\ pconn' = "none"
    /\ cycFail' = cycFail \cup {"connect"}
    /\ attempt' = 0
    /\ tries' = 0
    /\ fails' = 0
    /\ pc' = "pub_check"
    /\ UNCHANGED <<broker, message, routingKey, result,
                   lastError, closes, leaked, exc, pubErr, reports, prev, signalAt>>
    /\ edeclared' = NoExchange
    /\ sleeps' = <<>>
    /\ wireTries' = 0
    /\ UNCHANGED <<probe, testSocket, submits, pdeclared, pubEnded, slept>>

\* PubCheck without the test of line 168
PubCheckNoGuard ==
    /\ pc = "pub_check"
    /\ pc' = "pub_channel"
    /\ UNCHANGED <<broker, message, routingKey, result, attempt, tries, fails,
                   lastError, econn, pconn, orphans, closes, leaked, exc, pubErr,
                   reports, cycFail, prev, signalAt>>
    /\ UNCHANGED <<probe, testSocket, submits, edeclared, pdeclared, sleeps, wireTries, pubEnded, slept>>

\* PubCheck with a missing connection ending the process
PubCheckFatal ==
    /\ pc = "pub_check"
    /\ pc' = IF pconn = "none" THEN "stopped" ELSE "pub_channel"
    /\ UNCHANGED <<broker, message, routingKey, result, attempt, tries, fails,
                   lastError, econn, pconn, orphans, closes, leaked, exc, pubErr,
                   reports, cycFail, prev, signalAt>>
    /\ UNCHANGED <<probe, testSocket, submits, edeclared, pdeclared, sleeps, wireTries, pubEnded, slept>>

\* lines 168-169: if not connection: raise ConnectionError(...)
PubCheck ==
    /\ pc = "pub_check"
    /\ IF pconn = "none"
       THEN /\ pubErr' = NoConnectionError
            /\ pc' = "pub_except"
       ELSE /\ pc' = "pub_channel"
            /\ UNCHANGED pubErr
    /\ UNCHANGED <<broker, message, routingKey, result, attempt, tries, fails,
                   lastError, econn, pconn, orphans, closes, leaked, exc, reports,
                   cycFail, prev, signalAt>>
    /\ UNCHANGED <<probe, testSocket, submits, edeclared, pdeclared, sleeps, wireTries, pubEnded, slept>>

\* a broker call of publish_message raises: control goes to line 196
PubRaise ==
    /\ \E e \in ErrorsOf(broker) : pubErr' = LibraryError(e)
    /\ \E st \in {"open", "closed"} : pconn' = st
    /\ cycFail' = cycFail \cup {"publish"}
    /\ pc' = "pub_except"

\* a call on the connection inside publish_message's try block
PubCall(here, next) ==
    /\ pc = here
    /\ IF broker = "up"
       THEN /\ pc' = next
            /\ UNCHANGED <<pubErr, pconn, cycFail>>
       ELSE PubRaise
    /\ UNCHANGED <<broker, message, routingKey, result, attempt, tries, fails,
                   lastError, econn, orphans, closes, leaked, exc, reports, prev,
                   signalAt>>
    /\ UNCHANGED <<probe, testSocket, submits, edeclared, pdeclared, sleeps, wireTries, pubEnded, slept>>

\* line 172: channel = connection.channel()
PubChannel == PubCall("pub_channel", "pub_confirm")

\* lines 175-178: json.dumps(message) and channel.confirm_delivery()
PubConfirm == PubCall("pub_confirm", "pub_publish")

\* PubPublish reporting an unconfirmed delivery with logger.error
PubPublishEscalates ==
    /\ pc = "pub_publish"
    /\ submits' = submits + 1
    /\ IF broker = "up"
       THEN /\ routingKey' = RoutingKey(message)
            /\ \E r \in {"confirmed", "unconfirmed"} :
                 /\ result' = r
                 /\ reports' = Append(reports,
                                 IF r = "confirmed" THEN "success" ELSE "failure")
            /\ pc' = "pub_finally"
            /\ UNCHANGED <<pubErr, pconn, cycFail>>
       ELSE /\ PubRaise
            /\ UNCHANGED <<routingKey, result, reports>>
    /\ UNCHANGED <<broker, message, attempt, tries, fails, lastError, econn,
                   orphans, closes, leaked, exc, prev, signalAt>>
    /\ UNCHANGED <<probe, testSocket, edeclared, pdeclared, sleeps, wireTries,
                   pubEnded, slept>>

\* lines 180-194: basic_publish and the log line that its result selects
PubPublish ==
    /\ pc = "pub_publish"
    /\ submits' = submits + 1
    /\ IF broker = "up"
       THEN /\ routingKey' = RoutingKey(message)
            /\ \E r \in {"confirmed", "unconfirmed"} :
                 /\ result' = r
                 /\ reports' = Append(reports,
                                 IF r = "confirmed" THEN "success" ELSE "warning")
            /\ pc' = "pub_finally"
            /\ UNCHANGED <<pubErr, pconn, cycFail>>
       ELSE /\ PubRaise
            /\ UNCHANGED <<routingKey, result, reports>>
    /\ UNCHANGED <<broker, message, attempt, tries, fails, lastError, econn,
                   orphans, closes, leaked, exc, prev, signalAt>>
    /\ UNCHANGED <<probe, testSocket, edeclared, pdeclared, sleeps, wireTries, pubEnded, slept>>

\* PubExcept submitting the record once more after a failed publish
PubExceptRetries ==
    /\ pc = "pub_except"
    /\ reports' = Append(reports, "failure")
    /\ pc' = IF submits = 1 THEN "pub_publish" ELSE "pub_finally"
    /\ UNCHANGED <<broker, message, routingKey, result, attempt, tries, fails,
                   lastError, econn, pconn, orphans, closes, leaked, exc, pubErr,
                   cycFail, prev, signalAt>>
    /\ UNCHANGED <<probe, testSocket, submits, edeclared, pdeclared, sleeps, wireTries, pubEnded, slept>>

\* PubExcept logging the error and raising it again
PubExceptReraises ==
    /\ pc = "pub_except"
    /\ reports' = Append(reports, "failure")
    /\ exc' = IF exc = "none" THEN "PublishError" ELSE exc
    /\ pc' = "pub_finally"
    /\ UNCHANGED <<broker, message, routingKey, result, attempt, tries, fails,
                   lastError, econn, pconn, orphans, closes, leaked, pubErr,
                   cycFail, prev, signalAt>>
    /\ UNCHANGED <<probe, testSocket, submits, edeclared, pdeclared, sleeps, wireTries, pubEnded, slept>>

\* lines 196-197: except Exception as e: logger.error("Publication failed")
PubExcept ==
    /\ pc = "pub_except"
    /\ reports' = Append(reports, "failure")
    /\ pc' = "pub_finally"
    /\ UNCHANGED <<broker, message, routingKey, result, attempt, tries, fails,
                   lastError, econn, pconn, orphans, closes, leaked, exc, pubErr,
                   cycFail, prev, signalAt>>
    /\ UNCHANGED <<probe, testSocket, submits, edeclared, pdeclared, sleeps, wireTries, pubEnded, slept>>

\* where control goes when publish_message's finally block is left with x
\* propagating: line 221, line 223 or line 218
AfterFinally(x) ==
    IF x = "none" THEN "sleep"
    ELSE IF x = "KeyboardInterrupt" THEN "stopped"
    ELSE "drv_except"

\* lines 199-202: close the connection if there is one and it is not closed.
\* close() may itself raise when the broker is not up; an exception raised
\* inside finally replaces the one that was propagating.
PubFinally ==
    /\ pc = "pub_finally"
    /\ IF pconn = "open"
       THEN /\ closes' = closes + 1
            /\ pconn' = "closed"
            /\ \/ /\ UNCHANGED <<exc, cycFail>>
                  /\ pc' = AfterFinally(exc)
               \/ /\ broker # "up"
                  /\ exc' = "CloseError"
                  /\ cycFail' = cycFail \cup {"close"}
                  /\ pc' = "drv_except"
       ELSE /\ pc' = AfterFinally(exc)
            /\ UNCHANGED <<closes, pconn, exc, cycFail>>
    /\ UNCHANGED <<broker, message, routingKey, result, attempt, tries, fails,
                   lastError, econn, orphans, leaked, pubErr, reports, prev,
                   signalAt>>
    /\ pubEnded' = pubEnded + 1
    /\ UNCHANGED <<probe, testSocket, submits, edeclared, pdeclared, sleeps, wireTries, slept>>

\* DrvExcept going straight to the next iteration, past the sleep
DrvExceptContinues ==
    /\ pc = "drv_except"
    /\ reports' = Append(reports, "driver_error")
    /\ exc' = "none"
    /\ pc' = "gen"
    /\ UNCHANGED <<broker, message, routingKey, result, attempt, tries, fails,
                   lastError, econn, pconn, orphans, closes, leaked, pubErr,
                   cycFail, prev, signalAt>>
    /\ UNCHANGED <<probe, testSocket, submits, edeclared, pdeclared, sleeps, wireTries, pubEnded, slept>>

\* lines 218-219: except Exception as item_error: logger.error(...)
DrvExcept ==
    /\ pc = "drv_except"
    /\ reports' = Append(reports, "driver_error")
    /\ exc' = "none"
    /\ pc' = "sleep"
    /\ UNCHANGED <<broker, message, routingKey, result, attempt, tries, fails,
                   lastError, econn, pconn, orphans, closes, leaked, pubErr,
                   cycFail, prev, signalAt>>
    /\ UNCHANGED <<probe, testSocket, submits, edeclared, pdeclared, sleeps, wireTries, pubEnded, slept>>

\* line 221: time.sleep(interval)
Sleep ==
    /\ pc = "sleep"
    /\ pc' = "gen"
    /\ UNCHANGED <<broker, message, routingKey, result, attempt, tries, fails,
                   lastError, econn, pconn, orphans, closes, leaked, exc, pubErr,
                   reports, cycFail, prev, signalAt>>
    /\ slept' = slept + 1
    /\ UNCHANGED <<probe, testSocket, submits, edeclared, pdeclared, sleeps, wireTries, pubEnded>>

\* KeyboardInterrupt, delivered wherever the worker is. It is no Exception:
\* lines 115-128 and 196 do not catch it, the finally of line 199 runs when
\* it passes through publish_message's try block, and lines 223-224 end
\* start_news_generation. The model delivers it once the driver runs.
Interrupt ==
    /\ pc \notin {"construct", "probed", "crashed", "stopped"}
    /\ signalAt = "none"
    /\ signalAt' = pc
    /\ IF pc \in EstPcs
       THEN /\ orphans' = orphans + OpenCount(econn)
            /\ econn' = "none"
            /\ attempt' = 0
            /\ tries' = 0
            /\ fails' = 0
            /\ exc' = "KeyboardInterrupt"
            /\ pc' = "pub_finally"
       ELSE IF pc \in PubTryPcs
       THEN /\ exc' = "KeyboardInterrupt"
            /\ pc' = "pub_finally"
            /\ UNCHANGED <<orphans, econn, attempt, tries, fails>>
       ELSE /\ pc' = "stopped"
            /\ exc' = "none"
            /\ UNCHANGED <<orphans, econn, attempt, tries, fails>>
    /\ UNCHANGED <<broker, message, routingKey, result,
                   lastError, pconn, closes, leaked, pubErr, reports, cycFail, prev>>
    /\ IF pc \in EstPcs
       THEN edeclared' = NoExchange /\ sleeps' = <<>> /\ wireTries' = 0
       ELSE UNCHANGED <<edeclared, sleeps, wireTries>>
    /\ UNCHANGED <<probe, testSocket, submits, pdeclared, pubEnded, slept>>

\* the broker comes up, goes down or starts answering with something else
BrokerChange ==
    /\ \E b \in BrokerStates \ {broker} : broker' = b
    /\ UNCHANGED <<pc, message, routingKey, result, attempt, tries, fails,
                   lastError, econn, pconn, orphans, closes, leaked, exc, pubErr,
                   reports, cycFail, prev, signalAt>>
    /\ UNCHANGED <<probe, testSocket, submits, edeclared, pdeclared, sleeps, wireTries, pubEnded, slept>>

\* the worker's own steps
Step ==
    \/ PreflightProbe
    \/ PreflightCheck
    \/ Generate
    \/ PubEnter
    \/ EstLoop
    \/ EstConnect
    \/ EstChannel
    \/ EstQos
    \/ EstDeclare
    \/ EstReturn
    \/ EstBackoff
    \/ EstFail
    \/ PubCheck
    \/ PubChannel
    \/ PubConfirm
    \/ PubPublish
    \/ PubExcept
    \/ PubFinally
    \/ DrvExcept
    \/ Sleep

Next == Step \/ Interrupt \/ BrokerChange

Spec == Init /\ [][Next]_vars

\* the worker is a running thread: it takes its next step
LiveSpec == Spec /\ WF_vars(Step)

\* generate_news_item on its own (lines 140-154): one call per step, the
\* record it returns kept whole
GenerateItem ==
    /\ \E item \in NewsItems : message' = item
    /\ UNCHANGED <<pc, broker, routingKey, result, attempt, tries, fails,
                   lastError, econn, pconn, orphans, closes, leaked, exc, pubErr,
                   reports, cycFail, prev, signalAt, probe, testSocket, submits,
                   edeclared, pdeclared, sleeps, wireTries, pubEnded, slept>>

GenInit == Init /\ broker = "up"

GenSpec == GenInit /\ [][GenerateItem]_vars

----------------------------------------------------------------------------
\* Properties

\* the reports of a failure: logger.error of lines 197 and 219
Failures(seq) ==
    Cardinality({i \in DOMAIN seq : seq[i] \in {"failure", "driver_error"}})

\* the reports of a success: logger.info of line 192
Successes(seq) == Cardinality({i \in DOMAIN seq : seq[i] = "success"})

\* no connection opened in this or an earlier cycle is open
NothingOpen == ~leaked /\ orphans = 0 /\ pconn # "open" /\ econn # "open"

\* C1: when publish_message has returned, no connection opened during the
\* call is still open, whether the publish succeeded, the publish failed or
\* the connect failed.
C1_NoConnectionLeftOpen ==
    pc = "sleep" => orphans = 0 /\ pconn # "open"

\* C2: the routing key handed to basic_publish is "news." followed by the
\* lowercased category of the message.
C2_RoutingKeyLowercased ==
    routingKey # <<>> => routingKey = NewsPrefix \o Lower(message.category)

\* C3 as stated: whenever establish_connection gives up, whatever its
\* attempts raised, it has made exactly max_retries attempts.
C3_ExactlyMaxRetriesAnyFailure ==
    pc = "est_fail" => tries = MaxRetries

\* C3 as amended: establish_connection never makes more than max_retries
\* attempts; when it gives up every attempt has failed, and if the failures
\* were AMQP connection, AMQP channel or socket errors it has made exactly
\* max_retries attempts.
C3_RetryBoundExhaustion ==
    /\ tries <= MaxRetries
    /\ pc = "est_fail" => fails = tries
    /\ pc = "est_fail" /\ lastError \in Retryable => tries = MaxRetries

C3_Witness ==
    pc = "est_fail" /\ lastError \in Retryable /\ tries = MaxRetries

\* C4 as stated: while fewer than max_retries attempts have failed, whatever
\* they raised, and the broker accepts the next attempt, establish_connection
\* does not give up; and it returns having made no more than k+1 attempts.
C4_RecoversAfterAnyFailures ==
    /\ pc = "est_fail" => ~(fails < MaxRetries /\ broker = "up")
    /\ pc = "est_return" => tries <= fails + 1

\* C4 as amended: establish_connection gives up after fewer than max_retries
\* failures only when the last one was no AMQP connection, AMQP channel or
\* socket error; after k < max_retries failures of those kinds, an attempt
\* that succeeds makes it return an open connection, with k+1 attempts made.
C4_RetryBoundRecovery ==
    /\ pc = "est_fail" /\ fails < MaxRetries => lastError \in Unexpected
    /\ pc = "est_return" =>
          /\ econn = "open"
          /\ fails < MaxRetries
          /\ tries = fails + 1
          /\ lastError \in Retryable \cup {"none"}

C4_Witness ==
    pc = "est_return" /\ fails = MaxRetries - 1 /\ lastError \in Retryable

\* C5: a cycle in which the publish step alone failed followed by a cycle
\* that published with confirmation gives exactly one reported failure and
\* one reported success; the failed publish raises nothing into the driver
\* loop, which goes on to its sleep and the next cycle.
C5_PublishFailureIsolation ==
    /\ (pc = "sleep" /\ prev.fail = {"publish"} /\ cycFail = {} /\ result = "confirmed")
          => /\ Failures(prev.reports \o reports) = 1
             /\ Successes(prev.reports \o reports) = 1
    /\ (cycFail = {"publish"} /\ signalAt = "none")
          => /\ exc = "none"
             /\ pc \in {"pub_except", "pub_finally", "sleep", "gen"}
             /\ pc \in {"pub_finally", "sleep", "gen"} => reports = <<"failure">>

C5_Witness ==
    pc = "sleep" /\ prev.fail = {"publish"} /\ cycFail = {} /\ result = "confirmed"

\* C6: publish_message calls the broker only on a connection that
\* establish_connection returned; when that returned none, basic_publish and
\* close are not called, one failure (the ConnectionError of line 169) is
\* reported, nothing is raised to the driver, and the driver goes on to its
\* sleep and the next cycle.
C6_ConnectFailureReported ==
    /\ pc \in {"pub_channel", "pub_confirm", "pub_publish"} => pconn # "none"
    /\ "connect" \in cycFail
          => /\ routingKey = <<>>
             /\ result = "none"
             /\ closes = 0
             /\ signalAt = "none"
                   => /\ exc = "none"
                      /\ pc \in {"pub_check", "pub_except", "pub_finally", "sleep", "gen"}
                      /\ pc = "pub_except" => pubErr.type = "ConnectionError"
                      /\ pc \in {"pub_finally", "sleep", "gen"} => reports = <<"failure">>

C6_Witness ==
    pc = "sleep" /\ "connect" \in cycFail /\ signalAt = "none" /\ reports = <<"failure">>

\* C7: if the constructor's check passed, from some point on the broker is
\* up and no KeyboardInterrupt ever arrives, the worker again and again gets
\* a record through basic_publish, whatever cycles failed before.
C7_ReconnectLiveness ==
    (<>[](broker = "up") /\ [](signalAt = "none") /\ [](pc # "crashed"))
        => []<>(result # "none")

C7_Witness ==
    result # "none" /\ prev.fail = {"connect"} /\ signalAt = "none"

\* C8: once KeyboardInterrupt has arrived no further record is generated,
\* and when start_news_generation has returned no connection is open.
C8_ShutdownLeavesNothingOpen ==
    /\ signalAt # "none" => pc # "pub_enter"
    /\ pc = "stopped" => NothingOpen

\* C9: when KeyboardInterrupt arrived during time.sleep(interval), the loop
\* has stopped without a further cycle, no connection that was opened is
\* still open and none had close() called twice.
C9_SleepShutdownClosesEachOnce ==
    signalAt = "sleep" => pc = "stopped" /\ NothingOpen /\ closes <= 1

\* C10 as stated: after establish_connection has used up its retries,
\* nothing is raised, and the failure that is reported carries the last
\* error of the attempts as its context.
C10_FailureCarriesLastError ==
    (pc = "pub_except" /\ "connect" \in cycFail /\ lastError \in Retryable)
        => exc = "none" /\ pubErr.context = lastError

\* C10 as amended: after establish_connection has given up it returns None
\* and raises nothing; the failure publish_message then reports is the
\* ConnectionError of line 169, which carries no context. The last error of
\* the attempts was written to the log by the attempt that raised it.
C10_ConnectFailureResult ==
    /\ (pc = "pub_check" /\ "connect" \in cycFail)
          => pconn = "none" /\ pubErr = NoError
    /\ (pc = "pub_except" /\ "connect" \in cycFail)
          => /\ pubErr = NoConnectionError
             /\ lastError \in Retryable \cup Unexpected

C10_Witness ==
    pc = "pub_except" /\ "connect" \in cycFail /\ lastError \in Retryable

\* C11: the record of a cycle is handed to basic_publish at most once, and a
\* cycle starts with a new record and with nothing of the cycle before it:
\* no routing key, no result, no error, no report, no connection.
C11_NoRetryOfSameRecord ==
    /\ submits <= 1
    /\ pc = "pub_enter"
          => /\ message \in HandedItems
             /\ submits = 0
             /\ routingKey = <<>>
             /\ result = "none"
             /\ pubErr = NoError
             /\ lastError = "none"
             /\ reports = <<>>
             /\ cycFail = {}
             /\ econn = "none" /\ pconn = "none"

C11_Witness ==
    prev.fail = {"publish"} /\ submits = 1 /\ result # "none"

\* C12: a connection that establish_connection returns has news_exchange
\* declared over it as a durable topic exchange that is not auto-deleted,
\* and basic_publish is only called on such a connection, for that exchange.
C12_ExchangeDeclaredBeforeUse ==
    /\ pc = "est_return" => econn = "open" /\ edeclared = NewsExchange
    /\ pconn # "none" => pdeclared = NewsExchange
    /\ submits > 0
          => /\ pdeclared.exchange = PublishExchange
             /\ pdeclared.type = "topic"
             /\ pdeclared.durable
             /\ ~pdeclared.auto_delete

C12_Witness ==
    submits = 1 /\ result # "none" /\ pdeclared = NewsExchange

\* C13: when the constructor's network check fails, construction raises and
\* the process ends there: the check is not made again, no record is
\* generated, establish_connection is not called, the driver loop is not
\* entered. The driver runs only after a check that passed.
C13_PreflightFailureFatal ==
    /\ probe \in {"unreachable", "raised", "no_socket"}
          => /\ pc \in {"probed", "crashed"}
             /\ message = NoMessage
             /\ tries = 0 /\ wireTries = 0 /\ pubEnded = 0 /\ slept = 0
    /\ pc \notin {"construct", "probed", "crashed"} => probe = "reachable"
    /\ pc = "crashed" => probe \in {"unreachable", "raised", "no_socket"}

C13_Witness ==
    pc = "crashed" /\ probe = "unreachable"

\* C14: when basic_publish returns without a confirmation, publish_message
\* reports a warning and no failure, raises nothing, and the driver goes on
\* to its sleep and the next cycle.
C14_UnconfirmedIsWarning ==
    result = "unconfirmed"
       => /\ "publish" \notin cycFail
          /\ reports[1] = "warning"
          /\ "close" \notin cycFail
                => /\ reports = <<"warning">>
                   /\ Failures(reports) = 0
                   /\ signalAt = "none"
                         => exc = "none" /\ pc \in {"pub_finally", "sleep", "gen"}

C14_Witness ==
    pc = "sleep" /\ result = "unconfirmed" /\ reports = <<"warning">>

\* C15: when establish_connection returns or gives up it has slept once
\* less than it has made attempts, each sleep of 3 seconds.
C15_SleepsOnlyBetweenAttempts ==
    pc \in {"est_return", "est_fail"}
       => /\ Len(sleeps) = tries - 1
          /\ \A i \in DOMAIN sleeps : sleeps[i] = BackoffSeconds

C17_CycleOrdering ==
    /\ pubEnded <= 1 /\ slept <= 1
    /\ (pc = "gen" /\ message # NoMessage) => pubEnded = 1 /\ slept = 1
    /\ pc \in {"drv_except", "sleep"} => pubEnded = 1 /\ slept = 0
    /\ pc \in EstPcs \cup PubTryPcs \cup {"pub_enter", "pub_finally"}
          => pubEnded = 0 /\ slept = 0

C17_Witness ==
    pc = "gen" /\ cycFail # {} /\ pubEnded = 1 /\ slept = 1

\* C18: once an attempt has raised an exception that is none of the three
\* retried kinds, establish_connection makes no further attempt and takes
\* no backoff sleep: it gives up there, also after fewer than max_retries
\* attempts, having slept only after the attempts before that one.
C18_NonRetryableEndsAtOnce ==
    /\ lastError \in Unexpected => pc \notin (EstPcs \ {"est_fail"})
    /\ (pc = "est_fail" /\ lastError \in Unexpected)
          => /\ tries = fails
             /\ tries <= MaxRetries
             /\ Len(sleeps) = tries - 1

C18_Witness ==
    pc = "est_fail" /\ lastError \in Unexpected /\ tries = 2 /\ tries < MaxRetries

\* C19: the connection attempts one establish_connection call causes, those
\* the library makes for every BlockingConnection(...) included, are at most
\* max_retries.
C19_SingleRetryBound ==
    wireTries <= MaxRetries

\* C20: when _validate_network_prerequisites has returned or raised, the
\* test socket is not open.
C20_TestSocketClosed ==
    pc \notin {"construct", "probed"} => testSocket # "open"

====
